---- MODULE Spec2Model ----
(***************************************************************************)
(* A model of simplept.cpp, a Monte Carlo path tracer:                     *)
(*   - the per-thread random number generator (struct RNG),                *)
(*   - the OpenMP render loop of main(),                                   *)
(*   - the recursive radiance estimator (receivedRadiance and friends),    *)
(*   - the scene-level intersect().                                        *)
(*                                                                         *)
(* Real numbers are scaled integers: a uniform variate u in [0,1) is the   *)
(* integer 100*u in 0..99, so the roulette probabilities 1.0 and 0.9 are   *)
(* 100 and 90.  Radiance values are kept symbolically, as the record of    *)
(* the inputs (pixel coordinates and variates) that determine them.        *)
(***************************************************************************)
EXTENDS Integers, Naturals, Sequences, FiniteSets, TLC

VARIABLES
    \* ---- the render loop of main() and the global rng ----
    nworkers,   \* omp_get_num_procs(): the count passed to rng.init
    team,       \* number of threads of the parallel region (<= nworkers)
    samps,      \* samples per subpixel
    seeds,      \* engines[i].seed(rd()): the seed of each engine
    scene,      \* the scene's answer to a ray, a fixed function of the ray
    directFirst,\* the build's evaluation order of the operands of + (line 295)
    engine,     \* engine[e]: number of variates drawn from engines[e] so far
    nexty,      \* schedule(dynamic,1): the next loop row y to hand to a thread
    pc,         \* pc[t]: where thread t is in the loop body
    wy, wx,     \* the loop counters y, x of each thread
    c,          \* the accumulators std::vector<Vec> c(w*h)
    main,       \* "render" during the parallel loop, "done" after it
    \* ---- history of the run, for stating the properties ----
    rngCalls,   \* the pairs <<thread, engine index>> of all calls of rng()
    writersOf,  \* writersOf[i]: the pairs <<thread, row>> that wrote c[i]
    rowsOf,     \* rowsOf[t]: the rows thread t executed, in order
    \* ---- one call of the scene-level intersect() ----
    isIn,       \* its inputs: the distance each sphere reports, and id before
    isOut,      \* its outputs: the returned bool, t and id (<<>> before)
    \* ---- one call of directedRadiance() ----
    drIn,       \* its inputs: the surface, the light sample, the shadow ray
    drOut,      \* its outputs (<<>> before the call)
    \* ---- the estimator, call by call, for the samples of one thread ----
    epc,        \* where control is: "loop", "recv", "frame", "ret", "done"
    stack,      \* the activations of receivedRadiance that hit, outermost first
    arg,        \* the depth argument of the call of receivedRadiance being made
    left,       \* the samples main() has still to take
    retv,       \* the value being returned: "zero" is Vec(), "some" any other
    ended,      \* how the recursion of the current sample ended, "none" before
    last        \* what the last step did (history, for stating the properties)

rvars == <<nworkers, team, samps, seeds, scene, directFirst, engine, nexty, pc,
           wy, wx, c, main, rngCalls, writersOf, rowsOf>>

ivars == <<isIn, isOut>>
dvars == <<drIn, drOut>>
evars == <<epc, stack, arg, left, retv, ended, last>>

vars == <<rvars, ivars, dvars, evars>>

(***************************************************************************)
(* Bounds of the model.                                                    *)
(***************************************************************************)
W == 2          \* image width  (480 in main)
H == 2          \* image height (360 in main)
MaxProcs == 2   \* largest omp_get_num_procs() considered
MaxSamps == 1   \* largest samples-per-subpixel considered
NRay == 2       \* number of ray classes the scene distinguishes
NSph == 3       \* number of spheres of the scene (8 in spheres[])
MaxDist == 3    \* largest finite hit distance, in units of 0.005
MaxDepth == 6   \* the depths from MaxDepth on are represented by MaxDepth

(***************************************************************************)
(* Program constants.                                                      *)
(***************************************************************************)
SubPix == 2             \* sy < 2, sx < 2
RouletteDepth == 5      \* depth <= 5
PSure == 100            \* p = 1.0
PRoulette == 90         \* p = 0.9
Inf == 1000             \* inf = t = 1e20, far above every finite distance
Tol == 4                \* 0.0001, in squares of the unit 0.005
LightRadiance == 50     \* Vec(50,50,50), the emitted radiance of the light

\* The pseudo-random stream of an engine: a fixed periodic sequence of
\* variates.  It holds a run of five variates above 0.9, as long as the most
\* draws of one bounce, so that every path of the model is finite.
Stream == <<12, 47, 3, 68, 30, 55, 81, 95, 91, 99, 93, 97>>

Threads == 0 .. team - 1
Pixels == 0 .. W * H - 1
Rays == 0 .. NRay - 1

(***************************************************************************)
(* RNG                                                                     *)
(***************************************************************************)
\* omp_get_thread_num() of thread t (a mutant: every thread reports 0)
ThreadNumShared(t) == 0
ThreadNum(t) == t

\* distrb(engines[id]): the k-th variate of engine e, a function of its seed
Variate(e, k) == Stream[((seeds[e] + k) % Len(Stream)) + 1]

(***************************************************************************)
(* Rays, abstracted to the class the scene distinguishes                   *)
(***************************************************************************)
\* Ray(cam.o, d.normalize()), d a function of x, y, sx, sy, r1, r2
CameraRay(x, y, sx, sy, r1, r2) == (x + y + sx + sy + r1 + r2) % NRay
\* the direction DiffuseBRDF::sample builds from its two variates
DiffuseRay(ray, u1, u2) == (ray + u1 + u2) % NRay
\* the direction SpecularBRDF::sample returns: a function of the ray alone
MirrorRay(ray) == (ray + 1) % NRay

(***************************************************************************)
(* The estimator as a function of the engine position: each operator       *)
(* returns the position of engine e after the call.                        *)
(***************************************************************************)
RECURSIVE receivedRadianceF(_, _, _, _)

\* luminaireSample: sigma1 = rng(); sigma2 = rng()
luminaireSampleF(e, k) == k + 2

\* directedRadiance: luminaireSample, then the shadow ray (no draw)
directedRadianceF(e, k) == luminaireSampleF(e, k)

\* BRDF::sample: the diffuse one draws two variates, the specular one none
brdfSampleF(kind, e, k, ray) ==
    IF kind = "diffuse"
    THEN [k |-> k + 2, ray |-> DiffuseRay(ray, Variate(e, k), Variate(e, k + 1))]
    ELSE [k |-> k, ray |-> MirrorRay(ray)]

\* the survival probability of indirectedRadiance (two mutants: the roulette
\* never played, and a path cut off after depth 5)
SurvivalAlways(depth) == PSure
SurvivalCut(depth) == IF depth <= RouletteDepth THEN PSure ELSE -1
Survival(depth) == IF depth <= RouletteDepth THEN PSure ELSE PRoulette

indirectedRadianceF(kind, e, k, ray, depth) ==
    IF Variate(e, k) > Survival(depth)
    THEN k + 1
    ELSE LET s == brdfSampleF(kind, e, k + 1, ray)
         IN  receivedRadianceF(e, s.k, s.ray, depth + 1)

reflectedRadianceF(kind, e, k, ray, depth) ==
    IF directFirst
    THEN indirectedRadianceF(kind, e, directedRadianceF(e, k), ray, depth)
    ELSE directedRadianceF(e, indirectedRadianceF(kind, e, k, ray, depth))

receivedRadianceF(e, k, ray, depth) ==
    IF scene[ray] = "miss"
    THEN k
    ELSE reflectedRadianceF(scene[ray], e, k, ray, depth)

\* one iteration of the loop over s (lines 341-345): r1, r2, the camera ray
\* and receivedRadiance(.., 1, true).  The value is the record of its inputs:
\* the pixel and subpixel, and the variates drawn, which are those of Stream
\* from the phase (seeds[e] + k) % Len(Stream) on, k2 - k of them.
SampleF(e, k, x, y, sx, sy) ==
    LET r1 == Variate(e, k)
        r2 == Variate(e, k + 1)
        k2 == receivedRadianceF(e, k + 2, CameraRay(x, y, sx, sy, r1, r2), 1)
    IN  [k |-> k2,
         val |-> <<x, y, sx, sy, (seeds[e] + k) % Len(Stream), k2 - k>>]

(***************************************************************************)
(* main(): the parallel render loop                                        *)
(***************************************************************************)
\* const int i = (h - y - 1)*w + x  (a mutant: the factor w forgotten)
PixelIndexNoWidth(x, y) == (H - y - 1) + x
PixelIndex(x, y) == (H - y - 1) * W + x

\* for ( s < samps ) r = r + receivedRadiance(..)*(1./samps): the samples of
\* one subpixel, from sample s on; racc is r so far
RECURSIVE SamplesF(_, _, _, _, _, _, _, _)
SamplesF(e, k, x, y, sx, sy, s, racc) ==
    IF s >= samps
    THEN [k |-> k, r |-> racc]
    ELSE LET sm == SampleF(e, k, x, y, sx, sy)
         IN  SamplesF(e, sm.k, x, y, sx, sy, s + 1, Append(racc, sm.val))

\* for ( sy < 2 ) for ( sx < 2 ): the subpixels of pixel (x, y) from subpixel
\* q = 2*sy + sx on, each ending in c[i] = c[i] + clamp(r)*.25; ci is c[i] so far
RECURSIVE SubPixelsF(_, _, _, _, _, _)
SubPixelsF(e, k, x, y, q, ci) ==
    IF q >= SubPix * SubPix
    THEN [k |-> k, ci |-> ci]
    ELSE LET sp == SamplesF(e, k, x, y, q % SubPix, q \div SubPix, 0, <<>>)
         IN  SubPixelsF(e, sp.k, x, y, q + 1, Append(ci, sp.r))

\* engines[i].seed(rd()): the seeds of a run, one per engine; they are fixed
\* for the whole run, and here pairwise different
SeedChoices(n) == {[e \in 0 .. n - 1 |-> 3 * e]}

\* the scenes considered: the answer of intersect() to each class of ray
Scenes ==
    { [ray \in Rays |-> "diffuse"],
      [ray \in Rays |-> "specular"],
      [ray \in Rays |-> IF ray = 0 THEN "diffuse" ELSE "specular"],
      [ray \in Rays |-> IF ray = 0 THEN "miss" ELSE "diffuse"] }

RenderInit ==
    /\ nworkers \in 1 .. MaxProcs
    /\ team \in 1 .. nworkers
    /\ samps \in 0 .. MaxSamps
    /\ seeds \in SeedChoices(nworkers)
    /\ scene \in Scenes
    /\ directFirst \in BOOLEAN
    /\ engine = [e \in 0 .. nworkers - 1 |-> 0]
    /\ nexty = 0
    /\ pc = [t \in 0 .. team - 1 |-> "fetch"]
    /\ wy = [t \in 0 .. team - 1 |-> 0]
    /\ wx = [t \in 0 .. team - 1 |-> 0]
    /\ c = [i \in Pixels |-> <<>>]
    /\ main = "render"
    /\ rngCalls = {}
    /\ writersOf = [i \in Pixels |-> {}]
    /\ rowsOf = [t \in 0 .. team - 1 |-> <<>>]

\* schedule(dynamic, 1): a thread that asks is handed the next row, a chunk of
\* one iteration; which thread gets which row depends on when each asks
TakeRow(t) ==
    /\ main = "render" /\ pc[t] = "fetch" /\ nexty < H
    /\ nexty' = nexty + 1
    /\ wy' = [wy EXCEPT ![t] = nexty]
    /\ rowsOf' = [rowsOf EXCEPT ![t] = Append(@, nexty)]
    /\ wx' = [wx EXCEPT ![t] = 0]
    /\ pc' = [pc EXCEPT ![t] = "pixel"]
    /\ UNCHANGED <<nworkers, team, samps, seeds, scene, directFirst, engine, c,
                   main, rngCalls, writersOf>>
    /\ UNCHANGED <<ivars, dvars, evars>>

\* The body of the loop over x (lines 335-349) for one pixel: its four
\* subpixels, every sample drawn from the engine of the calling thread, every
\* subpixel sum added to c[i]; then x advances, and after the last pixel of
\* the row the thread goes on to the progress line.
Pixel(t) ==
    /\ main = "render" /\ pc[t] = "pixel"
    /\ LET e == ThreadNum(t)
           i == PixelIndex(wx[t], wy[t])
           px == SubPixelsF(e, engine[e], wx[t], wy[t], 0, c[i])
       IN  /\ engine' = [engine EXCEPT ![e] = px.k]
           /\ rngCalls' = IF samps > 0 THEN rngCalls \cup {<<t, e>>} ELSE rngCalls
           /\ c' = [c EXCEPT ![i] = px.ci]
           /\ writersOf' = [writersOf EXCEPT ![i] = @ \cup {<<t, wy[t]>>}]
    /\ wx' = [wx EXCEPT ![t] = @ + 1]
    /\ pc' = [pc EXCEPT ![t] = IF wx[t] + 1 < W THEN "pixel" ELSE "print"]
    /\ UNCHANGED <<nworkers, team, samps, seeds, scene, directFirst, nexty, wy,
                   main, rowsOf>>
    /\ UNCHANGED <<ivars, dvars, evars>>

\* #pragma omp critical fprintf(stderr, ...): the row is finished
Progress(t) ==
    /\ main = "render" /\ pc[t] = "print"
    /\ pc' = [pc EXCEPT ![t] = "fetch"]
    /\ UNCHANGED <<nworkers, team, samps, seeds, scene, directFirst, engine,
                   nexty, wy, wx, c, main, rngCalls, writersOf,
                   rowsOf>>
    /\ UNCHANGED <<ivars, dvars, evars>>

\* no row is left: the thread waits at the barrier that ends the loop
LeaveLoop(t) ==
    /\ main = "render" /\ pc[t] = "fetch" /\ nexty >= H
    /\ pc' = [pc EXCEPT ![t] = "end"]
    /\ UNCHANGED <<nworkers, team, samps, seeds, scene, directFirst, engine,
                   nexty, wy, wx, c, main, rngCalls, writersOf,
                   rowsOf>>
    /\ UNCHANGED <<ivars, dvars, evars>>

\* the implicit barrier: main() goes on to write the image
Finish ==
    /\ main = "render" /\ \A t \in Threads : pc[t] = "end"
    /\ main' = "done"
    /\ UNCHANGED <<nworkers, team, samps, seeds, scene, directFirst, engine,
                   nexty, pc, wy, wx, c, rngCalls, writersOf, rowsOf>>
    /\ UNCHANGED <<ivars, dvars, evars>>

(***************************************************************************)
(* The image as a function of the schedule: what a thread that executes    *)
(* the rows `rows` in this order, alone on its engine e from position 0    *)
(* on, adds to each accumulator.                                           *)
(***************************************************************************)
\* The tests k < 0 below never succeed: they only make the position be
\* computed before it is used.

\* the engine position after the first n pixels of row y, begun at k
RECURSIVE PosF(_, _, _, _)
PosF(e, k, y, n) ==
    IF n = 0
    THEN k
    ELSE LET k1 == PosF(e, k, y, n - 1)
         IN  IF k1 < 0 THEN k1 ELSE SubPixelsF(e, k1, n - 1, y, 0, <<>>).k

\* the engine position at which the j-th row of `rows` begins
RECURSIVE RowStartF(_, _, _)
RowStartF(e, rows, j) ==
    IF j = 1
    THEN 0
    ELSE LET k0 == RowStartF(e, rows, j - 1)
         IN  IF k0 < 0 THEN k0 ELSE PosF(e, k0, rows[j - 1], W)

\* the subpixel sums added to the accumulator of pixel (x, y)
PixelF(e, rows, j, x, y) ==
    LET k0 == RowStartF(e, rows, j)
        k1 == IF k0 < 0 THEN k0 ELSE PosF(e, k0, y, x)
    IN  IF k1 < 0 THEN <<>> ELSE SubPixelsF(e, k1, x, y, 0, <<>>).ci

\* the image of the schedule in which thread t executes the rows hist[t]
ImageOf(hist) ==
    [i \in Pixels |->
        LET p == CHOOSE p \in (0 .. W - 1) \X (0 .. H - 1) :
                     PixelIndex(p[1], p[2]) = i
            own == {tj \in Threads \X (1 .. H) :
                     /\ tj[2] <= Len(hist[tj[1]])
                     /\ hist[tj[1]][tj[2]] = p[2]}
        IN  IF own = {}
            THEN <<>>
            ELSE LET tj == CHOOSE tj \in own : TRUE
                 IN  PixelF(ThreadNum(tj[1]), hist[tj[1]], tj[2], p[1], p[2])]

\* the schedule in which thread 0 executes all rows, in loop order
Sequential == [t \in Threads |-> IF t = 0 THEN [j \in 1 .. H |-> j - 1] ELSE <<>>]

(***************************************************************************)
(* intersect(): the nearest hit of a ray over all spheres.  d[i] is what   *)
(* spheres[i].intersect(r) returns for the ray: 0 for no hit, else the     *)
(* distance.                                                               *)
(***************************************************************************)
Spheres == 0 .. NSph - 1
Distances == (0 .. MaxDist) \cup {Inf}
DistVectors == [Spheres -> Distances]

\* for ( int i = int(n); i--; ) if ( (d = ...) && d < t ) { t = d; id = i; }
\* (a mutant: d <= t, so that the lowest index of a tie is kept)
RECURSIVE ScanLe(_, _, _, _)
ScanLe(d, i, t, id) ==
    IF i < 0
    THEN [t |-> t, id |-> id]
    ELSE IF d[i] # 0 /\ d[i] <= t
         THEN ScanLe(d, i - 1, d[i], i)
         ELSE ScanLe(d, i - 1, t, id)

RECURSIVE Scan(_, _, _, _)
Scan(d, i, t, id) ==
    IF i < 0
    THEN [t |-> t, id |-> id]
    ELSE IF d[i] # 0 /\ d[i] < t
         THEN Scan(d, i - 1, d[i], i)
         ELSE Scan(d, i - 1, t, id)

\* return t < inf  (a mutant: t <= inf, so that a miss is reported as a hit)
IsHitLe(t) == t <= Inf
IsHit(t) == t < Inf

\* bool intersect(const Ray &r, double &t, int &id): inf = t = 1e20, the scan
\* from the last sphere down, return t < inf
intersect(d, id) ==
    LET s == Scan(d, NSph - 1, Inf, id)
    IN  [hit |-> IsHit(s.t), t |-> s.t, id |-> s.id]

IsectInputs == [d : DistVectors, id : Spheres]

IsectIdle == isIn = <<>> /\ isOut = <<>>

IsectInit ==
    /\ isIn \in {<<a>> : a \in IsectInputs}
    /\ isOut = <<>>

CallIntersect ==
    /\ isIn # <<>> /\ isOut = <<>>
    /\ isOut' = <<intersect(isIn[1].d, isIn[1].id)>>
    /\ UNCHANGED <<isIn, rvars, dvars, evars>>

(***************************************************************************)
(* Vec, with integer components                                            *)
(***************************************************************************)
Vec(x, y, z) == <<x, y, z>>
VecSub(a, b) == <<a[1] - b[1], a[2] - b[2], a[3] - b[3]>>
VecScale(a, k) == <<a[1] * k, a[2] * k, a[3] * k>>
VecDot(a, b) == a[1] * b[1] + a[2] * b[2] + a[3] * b[3]

\* Vec mirroredDirection(n, o): n * n.dot(o) * 2.0 - o
mirroredDirection(n, o) == VecSub(VecScale(VecScale(n, VecDot(n, o)), 2), o)

(***************************************************************************)
(* BRDFs.  A colour is one integer channel; the zero colour Vec() is 0.    *)
(* The specular eval returns ks * (1/n.dot(i)); the model keeps ks, the    *)
(* factor being a non-zero scalar.                                         *)
(***************************************************************************)
Diffuse(kd) == [kind |-> "diffuse", k |-> kd]
Specular(ks) == [kind |-> "specular", k |-> ks]

\* BRDF::eval(n, o, i)
brdfEval(brdf, n, o, i) ==
    IF brdf.kind = "diffuse"
    THEN brdf.k
    ELSE IF i = mirroredDirection(n, o) THEN brdf.k ELSE 0

(***************************************************************************)
(* directedRadiance(x, o, obj, flag).  Its geometry, given as inputs g:    *)
(*   g.brdf  obj.brdf                                                      *)
(*   g.n     (x - obj.p).normalize()                                       *)
(*   g.o     the outgoing direction o                                      *)
(*   g.i     (x_l - x).normalize(), the direction to the light sample      *)
(*   g.nl    n_l, the normal of the light at the sample                    *)
(*   g.dl    the distance from x to x_l, so disXtoXl = dl * dl             *)
(*   g.sd    what each sphere reports for the shadow ray Ray(x, i)         *)
(*   g.id    the uninitialised `int id` handed to intersect (never read)   *)
(* x_hit = x + i*t and x_l = x + i*dl lie on the shadow ray, so            *)
(* (x_hit - x_l).dot(x_hit - x_l) = (t - dl)^2.                            *)
(***************************************************************************)
\* the test of line 262 (a mutant: any hit not beyond the light passes)
ReachesLightLoose(t, dl) == t <= dl
ReachesLight(t, dl) == (t - dl) * (t - dl) < Tol

directedRadiance(g) ==
    LET n == IF VecDot(g.n, g.o) < 0 THEN VecScale(g.n, -1) ELSE g.n
        is == intersect(g.sd, g.id)
    IN  IF ReachesLight(is.t, g.dl)
        THEN [t |-> is.t,
              eval |-> <<g.brdf, n, g.o, g.i>>,
              term |-> LightRadiance * brdfEval(g.brdf, n, g.o, g.i)
                         * VecDot(n, g.i)
                         * VecDot(g.nl, VecSub(Vec(0, 0, 0), g.i))]
        ELSE [t |-> is.t, eval |-> <<>>, term |-> 0]

Normals == {Vec(0, 0, 1), Vec(0, 0, -1)}
Dirs == {Vec(0, 0, 1), Vec(1, 0, 1), Vec(-1, 0, 1)}
BRDFs == {Diffuse(3), Diffuse(0), Specular(4)}

DirectInputs ==
    [brdf : BRDFs, n : Normals, o : Dirs, i : Dirs, nl : Normals,
     dl : 1 .. MaxDist, sd : DistVectors, id : {0}]

DirectIdle == drIn = <<>> /\ drOut = <<>>

DirectInit ==
    /\ drIn \in {<<g>> : g \in DirectInputs}
    /\ drOut = <<>>

CallDirected ==
    /\ drIn # <<>> /\ drOut = <<>>
    /\ drOut' = <<directedRadiance(drIn[1])>>
    /\ UNCHANGED <<drIn, rvars, ivars, evars>>

(***************************************************************************)
(* The estimator, call by call: receivedRadiance, reflectedRadiance,       *)
(* directedRadiance and indirectedRadiance as they call each other, for    *)
(* the samples one thread takes.  An activation of receivedRadiance that   *)
(* hit a sphere is a frame of `stack`: its depth, the sphere hit, whether  *)
(* its direct term is computed, and the state of its indirect term.        *)
(* The stack holds at most MaxDepth frames: the frame at MaxDepth stands   *)
(* for all the activations of depth MaxDepth or more.                      *)
(***************************************************************************)
Min(a, b) == IF a < b THEN a ELSE b

\* obj.brdf of spheres[id]: the last sphere is the light (blackSurf), the one
\* before it the mirror ball (brightSurf_s), the others are diffuse
SphereBRDF(id) ==
    IF id = NSph - 1 THEN Diffuse(0)
    ELSE IF id = NSph - 2 THEN Specular(4)
    ELSE Diffuse(3)

\* SpecularBRDF::sample: i = mirroredDirection(n, o)
\* (a mutant: the direction back along o)
specularSampleBack(n, o) == o
specularSample(n, o) == mirroredDirection(n, o)

\* brdf.sample(n, o, i, pdf): di is the direction the diffuse one builds from
\* its two variates
brdfSample(brdf, n, o, di) ==
    IF brdf.kind = "diffuse" THEN di ELSE specularSample(n, o)

\* the number of variates brdf.sample draws
brdfSampleDraws(brdf) == IF brdf.kind = "diffuse" THEN 2 ELSE 0

\* receivedRadiance(Ray(x, i), depth + 1, flag): the depth of the next bounce
NextDepth(depth) == depth + 1

\* the variates considered, on both sides of 0.9
EstVariates == {50, 90, 91}
\* the spheres the rays considered can hit: a diffuse one and the mirror ball
EstSpheres == {0, NSph - 2}
\* the rays considered, as what each sphere reports for them: a miss, a hit
\* of one sphere alone, and a hit of the mirror ball in front of the light
EstRays ==
    {[s \in Spheres |-> 0]}
      \cup {[s \in Spheres |-> IF s = h THEN 2 ELSE 0] : h \in EstSpheres}
      \cup {[s \in Spheres |-> IF s = NSph - 2 THEN 1
                               ELSE IF s = NSph - 1 THEN 2 ELSE 0]}
\* the outgoing and incoming directions considered: each the mirror of the
\* other about EstNormal
EstDirs == {Vec(1, 0, 1), Vec(-1, 0, 1)}
\* the normal at the point hit (after the flip towards o)
EstNormal == Vec(0, 0, 1)
\* the shadow rays considered: a miss, the light alone, an occluder before it
ShadowRays ==
    { [s \in Spheres |-> 0],
      [s \in Spheres |-> IF s = NSph - 1 THEN MaxDist ELSE 0],
      [s \in Spheres |-> IF s = NSph - 1 THEN MaxDist
                         ELSE IF s = 0 THEN 1 ELSE 0] }
\* the surface points and light samples considered for the sphere with `brdf`
EstPoints(brdf) ==
    [brdf : {brdf}, n : {EstNormal}, o : EstDirs, i : EstDirs,
     nl : {Vec(0, 0, -1)}, dl : {MaxDist}, sd : ShadowRays, id : {0}]

\* a call of brdf.eval, with the value it returns
EvalCall(by, brdf, n, o, i) ==
    [by |-> by, brdf |-> brdf, n |-> n, o |-> o, i |-> i,
     val |-> brdfEval(brdf, n, o, i)]

\* the record of a step: the operation, the depth of the activation, the
\* variate u of the roulette and the probability p it was compared with, the
\* number of variates drawn, the calls of eval, the ray, and the height of the
\* stack before the step
Step(op, depth, u, p, drawn, evals, ray, height) ==
    [op |-> op, depth |-> depth, u |-> u, p |-> p, drawn |-> drawn,
     evals |-> evals, ray |-> ray, height |-> height]

EstIdle ==
    /\ epc = "idle" /\ stack = <<>> /\ arg = 0 /\ left = 0
    /\ retv = "zero" /\ ended = "none"
    /\ last = Step("none", 0, 0, 0, 0, {}, <<>>, 0)

EstInit ==
    /\ epc = "loop" /\ stack = <<>> /\ arg = 0
    /\ left \in 0 .. MaxSamps
    /\ retv = "zero" /\ ended = "none"
    /\ last = Step("none", 0, 0, 0, 0, {}, <<>>, 0)

Top == stack[Len(stack)]
SetTop(f) == [stack EXCEPT ![Len(stack)] = f]

\* main(), lines 340-345: r1 = 2*rng(), r2 = 2*rng(), the camera ray, and the
\* call receivedRadiance(.., 1, true)
NewSample ==
    /\ epc = "loop" /\ left > 0
    /\ left' = left - 1
    /\ arg' = 1
    /\ epc' = "recv"
    /\ ended' = "none"
    /\ last' = Step("sample", 0, 0, 0, 2, {}, <<>>, Len(stack))
    /\ UNCHANGED <<stack, retv>>
    /\ UNCHANGED <<rvars, ivars, dvars>>

\* main(): s = samps, the loop over the samples is left
Done ==
    /\ epc = "loop" /\ left = 0
    /\ epc' = "done"
    /\ last' = Step("done", 0, 0, 0, 0, {}, <<>>, Len(stack))
    /\ UNCHANGED <<stack, arg, left, retv, ended>>
    /\ UNCHANGED <<rvars, ivars, dvars>>

\* receivedRadiance(r, depth, flag), lines 303-312: int id = 0; on a miss
\* return Vec(); on a hit obj = spheres[id] and reflectedRadiance is entered
Receive ==
    /\ epc = "recv"
    /\ \E d \in EstRays :
         LET is == intersect(d, 0)
             fr == [depth |-> arg, obj |-> is.id, dir |-> FALSE, ind |-> "todo"]
         IN  IF ~is.hit
             THEN /\ epc' = "ret"
                  /\ retv' = "zero"
                  /\ ended' = "miss"
                  /\ last' = Step("miss", arg, 0, 0, 0, {}, d, Len(stack))
                  /\ UNCHANGED stack
             ELSE /\ epc' = "frame"
                  /\ stack' = IF Len(stack) < MaxDepth
                              THEN Append(stack, fr)
                              ELSE SetTop(fr)
                  /\ last' = Step("hit", arg, 0, 0, 0, {}, d, Len(stack))
                  /\ UNCHANGED <<retv, ended>>
    /\ UNCHANGED <<arg, left>>
    /\ UNCHANGED <<rvars, ivars, dvars>>

\* directedRadiance(x, o, obj, flag), the first or the second operand of the
\* + of line 295 as the build orders them: luminaireSample draws two
\* variates, then the shadow ray and, if it reaches the light, brdf.eval
Direct ==
    /\ epc = "frame" /\ stack # <<>>
    /\ ~Top.dir /\ (directFirst \/ Top.ind = "done")
    /\ \E g \in EstPoints(SphereBRDF(Top.obj)) :
         LET res == directedRadiance(g)
             evals == IF res.eval = <<>>
                      THEN {}
                      ELSE {EvalCall("direct", res.eval[1], res.eval[2],
                                     res.eval[3], res.eval[4])}
         IN  last' = Step("direct", Top.depth, 0, 0, 2, evals, <<>>, Len(stack))
    /\ stack' = SetTop([Top EXCEPT !.dir = TRUE])
    /\ UNCHANGED <<epc, arg, left, retv, ended>>
    /\ UNCHANGED <<rvars, ivars, dvars>>

\* indirectedRadiance(x, o, obj, depth, flag), lines 271-288, up to its return
\* of Vec() or its call of receivedRadiance.  The call of brdf.eval(n, o, i)
\* of line 288 takes the n, o, i fixed here and is recorded with this step.
Indirect ==
    /\ epc = "frame" /\ stack # <<>>
    /\ Top.ind = "todo" /\ (directFirst => Top.dir)
    /\ \E u \in EstVariates, o \in EstDirs, di \in EstDirs :
         LET p == Survival(Top.depth)
             brdf == SphereBRDF(Top.obj)
             i == brdfSample(brdf, EstNormal, o, di)
         IN  IF u > p
             THEN /\ stack' = SetTop([Top EXCEPT !.ind = "done"])
                  /\ ended' = "roulette"
                  /\ last' = Step("stop", Top.depth, u, p, 1, {}, <<>>,
                                  Len(stack))
                  /\ UNCHANGED <<epc, arg>>
             ELSE /\ stack' = SetTop([Top EXCEPT !.ind = "wait"])
                  /\ arg' = Min(NextDepth(Top.depth), MaxDepth)
                  /\ epc' = "recv"
                  /\ last' = Step("bounce", Top.depth, u, p,
                                  1 + brdfSampleDraws(brdf),
                                  {EvalCall("indirect", brdf, EstNormal, o, i)},
                                  <<>>, Len(stack))
                  /\ UNCHANGED ended
    /\ UNCHANGED <<left, retv>>
    /\ UNCHANGED <<rvars, ivars, dvars>>

\* the roulette step of indirectedRadiance: if ( rng() > p ) return Vec()
RouletteStop == Indirect /\ last'.op = "stop"

\* reflectedRadiance and receivedRadiance return: both terms are computed
FrameDone ==
    /\ epc = "frame" /\ stack # <<>>
    /\ Top.dir /\ Top.ind = "done"
    /\ stack' = SubSeq(stack, 1, Len(stack) - 1)
    /\ retv' = "some"
    /\ epc' = "ret"
    /\ last' = Step("leave", Top.depth, 0, 0, 0, {}, <<>>, Len(stack))
    /\ UNCHANGED <<arg, left, ended>>
    /\ UNCHANGED <<rvars, ivars, dvars>>

\* the value of receivedRadiance reaches its caller: indirectedRadiance of the
\* activation below (line 288), or main() (line 345)
Return ==
    /\ epc = "ret"
    /\ IF stack = <<>>
       THEN /\ epc' = "loop"
            /\ last' = Step("top", 1, 0, 0, 0, {}, <<>>, Len(stack))
            /\ UNCHANGED stack
       ELSE /\ epc' = "frame"
            /\ stack' = SetTop([Top EXCEPT !.ind = "done"])
            /\ last' = Step("back", Top.depth, 0, 0, 0, {}, <<>>, Len(stack))
    /\ UNCHANGED <<arg, left, retv, ended>>
    /\ UNCHANGED <<rvars, ivars, dvars>>

\* the render loop is not running
RenderIdle ==
    /\ nworkers = 1 /\ team = 1 /\ samps = 0
    /\ seeds = <<>> /\ scene = <<>>
    /\ engine = <<>> /\ nexty = 0 /\ pc = <<>> /\ wy = <<>> /\ wx = <<>>
    /\ c = <<>> /\ main = "idle" /\ rngCalls = {} /\ writersOf = <<>>
    /\ rowsOf = <<>>

Init == RenderInit /\ IsectIdle /\ DirectIdle /\ EstIdle

Next ==
    \/ \E t \in Threads : TakeRow(t)
    \/ \E t \in Threads : Pixel(t)
    \/ \E t \in Threads : Progress(t)
    \/ \E t \in Threads : LeaveLoop(t)
    \/ Finish

Spec == Init /\ [][Next]_vars

InitIsect ==
    RenderIdle /\ directFirst = TRUE /\ IsectInit /\ DirectIdle /\ EstIdle
NextIsect == CallIntersect
SpecIsect == InitIsect /\ [][NextIsect]_vars

InitEst ==
    RenderIdle /\ directFirst \in BOOLEAN /\ IsectIdle /\ DirectIdle /\ EstInit
NextEst ==
    \/ NewSample
    \/ Receive
    \/ Direct
    \/ Indirect
    \/ FrameDone
    \/ Return
    \/ Done
SpecEst == InitEst /\ [][NextEst]_vars

\* the roulette is fair: at depth > 5 the outcome rng() > 0.9, possible at
\* every bounce, is not avoided forever
SpecEstFair == SpecEst /\ WF_vars(NextEst) /\ SF_vars(RouletteStop)

InitDirect ==
    RenderIdle /\ directFirst = TRUE /\ IsectIdle /\ DirectInit /\ EstIdle
NextDirect == CallDirected
SpecDirect == InitDirect /\ [][NextDirect]_vars

(***************************************************************************)
(* Properties of the render loop (under Spec)                              *)
(***************************************************************************)
\* the accumulators of loop row y: the w consecutive slots of image row h-y-1
RowSlots(y) == {i \in Pixels : i \div W = H - y - 1}
\* the threads that executed loop row y
RowThreads(y) ==
    {t \in Threads : \E j \in 1 .. Len(rowsOf[t]) : rowsOf[t][j] = y}

\* C1: the index i = (h-y-1)*w + x maps the pairs (y, x) one-to-one onto
\* 0..w*h-1; no loop row is executed by two threads (and by exactly one once
\* the loop has ended); no accumulator c[i] is written by two different
\* threads; and a thread writes only accumulators of the row it is processing.
C1_AccumulatorsExclusive ==
    /\ \A i \in Pixels :
         Cardinality({p \in (0 .. W - 1) \X (0 .. H - 1) :
                         PixelIndex(p[1], p[2]) = i}) = 1
    /\ \A y \in 0 .. H - 1 :
         /\ Cardinality(RowThreads(y)) <= 1
         /\ main = "done" => Cardinality(RowThreads(y)) = 1
    /\ \A i \in Pixels :
         /\ \A a, b \in writersOf[i] : a[1] = b[1]
         /\ \A a \in writersOf[i] : i \in RowSlots(a[2])

\* two threads have each written accumulators, and the loop has ended
C1_Witness ==
    /\ main = "done"
    /\ \E i, j \in Pixels : \E a \in writersOf[i], b \in writersOf[j] :
         a[1] # b[1]

\* C2: every call of rng() uses the engine whose index is the thread number
\* of the caller, that index is below the count n passed to init(n), and no
\* engine is drawn from by two different threads.
C2_OwnEngine ==
    /\ \A a \in rngCalls : a[2] = a[1] /\ a[2] < nworkers
    /\ \A a, b \in rngCalls : a[2] = b[2] => a[1] = b[1]

\* two threads have each drawn variates
C2_Witness == \E a, b \in rngCalls : a[1] # b[1]

\* C3, as claimed: whatever the schedule, the final image is the one of the
\* schedule in which one thread executes all rows in order.
C3_OrderInvariant == main = "done" => c = ImageOf(Sequential)

\* C3, amended: the final image is determined by which thread executed which
\* rows and in which order; the interleaving of the threads does not matter.
C3_ScheduleDetermines == main = "done" => c = ImageOf(rowsOf)

\* the loop has ended, with rows executed by a thread other than thread 0
C3_Witness ==
    /\ main = "done" /\ samps > 0
    /\ \E t \in Threads : t # 0 /\ rowsOf[t] # <<>> /\ rowsOf[0] # <<>>

(***************************************************************************)
(* Properties of intersect() (under SpecIsect)                             *)
(***************************************************************************)
\* the spheres that report a hit nearer than inf
ValidHits(d) == {i \in Spheres : d[i] # 0 /\ d[i] < Inf}

\* C7: intersect returns true iff some sphere reports a non-zero distance
\* below inf; then t is the least such distance and id the highest index of
\* a sphere attaining it; on a miss t = inf and id is left as it was.
C7_NearestHit ==
    isOut # <<>> =>
        LET d == isIn[1].d
            out == isOut[1]
        IN  /\ out.hit <=> ValidHits(d) # {}
            /\ out.hit =>
                 /\ out.id \in ValidHits(d)
                 /\ d[out.id] = out.t
                 /\ \A i \in ValidHits(d) : out.t <= d[i]
                 /\ \A i \in ValidHits(d) : d[i] = out.t => i <= out.id
            /\ ~out.hit => out.t = Inf /\ out.id = isIn[1].id

\* a call in which two spheres tie for the nearest hit
C7_Witness ==
    /\ isOut # <<>> /\ isOut[1].hit
    /\ \E i \in Spheres : i # isOut[1].id /\ isIn[1].d[i] = isOut[1].t

(***************************************************************************)
(* Properties of directedRadiance() (under SpecDirect)                     *)
(***************************************************************************)
\* the nearest hit of the shadow ray, computed from what the spheres report
NearestShadowHit(d) ==
    IF ValidHits(d) = {}
    THEN Inf
    ELSE CHOOSE t \in {d[i] : i \in ValidHits(d)} :
             \A i \in ValidHits(d) : t <= d[i]

\* C6: whenever the nearest hit of the shadow ray is not within squared
\* distance 1e-4 of the light sample (an occluder in between, or no hit at
\* all and t = 1e20), the direct term is the zero colour; so a non-zero
\* direct term comes only with a nearest hit within the tolerance.
C6_OccludedIsZero ==
    drOut # <<>> =>
        LET t == NearestShadowHit(drIn[1].sd)
            far == (t - drIn[1].dl) * (t - drIn[1].dl) >= Tol
        IN  /\ far => drOut[1].term = 0
            /\ drOut[1].term # 0 => ~far

\* a call whose shadow ray hits an occluder before the light sample, on a
\* surface whose direct term would otherwise not vanish
C6_Witness ==
    /\ drOut # <<>>
    /\ drOut[1].t < drIn[1].dl /\ drOut[1].term = 0
    /\ (drOut[1].t - drIn[1].dl) * (drOut[1].t - drIn[1].dl) >= Tol
    /\ drIn[1].brdf = Diffuse(3)
    /\ VecDot(drIn[1].n, drIn[1].i) > 0
    /\ VecDot(drIn[1].nl, drIn[1].i) < 0

(***************************************************************************)
(* Properties of the estimator (under SpecEst and SpecEstFair)             *)
(***************************************************************************)
\* C4: in indirectedRadiance the survival probability is 1.0 when depth <= 5
\* and 0.9 otherwise; the branch ends (without a recursive call) exactly when
\* the variate drawn exceeds p, so a bounce at depth <= 5 is never ended by
\* the roulette; and a surviving bounce calls receivedRadiance with depth + 1.
C4_Roulette ==
    last.op \in {"stop", "bounce"} =>
        /\ last.p = (IF last.depth <= 5 THEN 100 ELSE 90)
        /\ (last.op = "stop") <=> (last.u > last.p)
        /\ last.depth <= 5 => last.op = "bounce"
        /\ last.op = "stop" =>
             /\ epc = "frame" /\ Len(stack) = last.height
             /\ Top.ind = "done" /\ ended = "roulette"
        /\ last.op = "bounce" =>
             /\ epc = "recv" /\ Len(stack) = last.height
             /\ last.depth < MaxDepth => arg = last.depth + 1

\* the roulette has just ended a path beyond depth 5
C4_Witness == last.op = "stop" /\ last.depth > 5 /\ last.u = 91

\* C5: when the ray passed to receivedRadiance hits no sphere, the call
\* returns the zero radiance at once: no variate is drawn, no BRDF is
\* evaluated, no activation is added and no recursive call is made.
C5_MissReturnsZero ==
    (last.op \in {"miss", "hit"} /\ ValidHits(last.ray) = {}) =>
        /\ last.op = "miss"
        /\ epc = "ret" /\ retv = "zero" /\ ended = "miss"
        /\ last.drawn = 0 /\ last.evals = {}
        /\ Len(stack) = last.height

\* the ray of a bounce has just missed every sphere
C5_Witness == last.op = "miss" /\ last.depth > 1 /\ stack # <<>>

\* the mirror direction 2*(n.o)*n - o
MirrorOf(n, o) == VecSub(VecScale(n, 2 * VecDot(n, o)), o)

\* C8, as claimed: every call of the specular eval is made with i the mirror
\* direction of o about n.
C8_AlwaysMirror ==
    \A ev \in last.evals :
        ev.brdf.kind = "specular" => ev.i = MirrorOf(ev.n, ev.o)

\* C8, amended: every call of the specular eval made by indirectedRadiance is
\* made with i the mirror direction of o about n; a call made with another
\* direction comes from directedRadiance, and eval returns the zero colour.
C8_IndirectMirror ==
    \A ev \in last.evals :
        ev.brdf.kind = "specular" =>
            /\ ev.by = "indirect" => ev.i = MirrorOf(ev.n, ev.o)
            /\ ev.i # MirrorOf(ev.n, ev.o) => ev.by = "direct" /\ ev.val = 0

\* indirectedRadiance has just evaluated the BRDF of the mirror ball
C8_Witness ==
    \E ev \in last.evals :
        ev.brdf.kind = "specular" /\ ev.by = "indirect" /\ ev.val # 0

\* C9: the depth grows by one with each bounce, from 1 at the call of main(),
\* and nothing stops it: whatever the depth, a call of receivedRadiance can
\* hit a sphere, and the roulette of its indirect term can survive and call
\* receivedRadiance again.
C9_NoDepthCap ==
    /\ \A j \in 1 .. Len(stack) : stack[j].depth = j
    /\ epc = "recv" =>
         /\ arg = Min(Len(stack) + 1, MaxDepth)
         /\ ENABLED (Receive /\ epc' = "frame")
    /\ (epc = "frame" /\ Top.ind = "todo" /\ (directFirst => Top.dir)) =>
         ENABLED (Indirect /\ epc' = "recv")

\* a call of receivedRadiance deeper than MaxDepth has just hit a sphere
C9_Witness ==
    /\ last.op = "hit" /\ last.height = MaxDepth
    /\ Len(stack) = MaxDepth /\ Top.depth = MaxDepth

====
